---- MODULE Spec2Model ----
(***************************************************************************)
(* Model of src/app.py, the BOL generation tool: the carrier guide loader, *)
(* the CommerceHub / SAP LTL joins, the per-row template fill loop, the    *)
(* ZIP packaging and the single try/except around the run.                 *)
(*                                                                         *)
(* Text is a sequence of one-character strings, so that str.replace,       *)
(* str.strip, the regular expression of str.extract and the os.path        *)
(* functions are computed character by character.  A table cell is a       *)
(* Python value: a str, an int or NaN.                                     *)
(*                                                                         *)
(* Line 132 of src/app.py reads .replace("//"."_"), which Python rejects   *)
(* as a syntax error; the model reads it as .replace("//","_"), the call   *)
(* the line spells but for the "." typed in place of the ",".              *)
(***************************************************************************)
EXTENDS Integers, Sequences, FiniteSets, TLC

(***************************************************************************)
(* Bounds of the model.                                                    *)
(***************************************************************************)
\* rows of the three tables of one run, taken together (Spec)
MaxRows == 4
\* fragments an address line is built from (SpecExtract)
MaxFrags == 3
\* pieces a template text is built from (SpecFill)
MaxPieces == 2

(***************************************************************************)
(* Python values and text.                                                 *)
(***************************************************************************)
PyS(s) == [t |-> "str", s |-> s, n |-> 0]
PyI(n) == [t |-> "int", s |-> <<>>, n |-> n]
NaN == [t |-> "nan", s |-> <<>>, n |-> 0]

notna(v) == v.t # "nan"

DIGITS == <<"0", "1", "2", "3", "4", "5", "6", "7", "8", "9">>
IsDigit(c) == \E d \in 1..10 : DIGITS[d] = c

RECURSIVE IntStr(_)
IntStr(n) ==
    IF n < 10 THEN <<DIGITS[n + 1]>>
    ELSE IntStr(n \div 10) \o <<DIGITS[(n % 10) + 1]>>

nan_text == <<"n", "a", "n">>

\* str(val) of a cell value
PyStr(v) ==
    CASE v.t = "str" -> v.s
      [] v.t = "int" -> IntStr(v.n)
      [] OTHER -> nan_text

\* key in text
Contains(text, key) ==
    \E p \in 1..(Len(text) - Len(key) + 1) :
        SubSeq(text, p, p + Len(key) - 1) = key

StartsWith(text, key) ==
    /\ Len(text) >= Len(key)
    /\ SubSeq(text, 1, Len(key)) = key

\* text.replace(key, val): every non-overlapping occurrence, leftmost first;
\* the inserted text is not scanned again
RECURSIVE Replace(_, _, _)
Replace(text, key, val) ==
    IF text = <<>> THEN <<>>
    ELSE IF StartsWith(text, key)
         THEN val \o Replace(SubSeq(text, Len(key) + 1, Len(text)), key, val)
         ELSE <<Head(text)>> \o Replace(Tail(text), key, val)

Whitespace == {" ", "\t", "\n"}

RECURSIVE LStrip(_)
LStrip(text) ==
    IF text # <<>> /\ Head(text) \in Whitespace THEN LStrip(Tail(text)) ELSE text

RECURSIVE RStrip(_)
RStrip(text) ==
    IF text # <<>> /\ text[Len(text)] \in Whitespace
    THEN RStrip(SubSeq(text, 1, Len(text) - 1))
    ELSE text

Strip(text) == RStrip(LStrip(text))

(***************************************************************************)
(* Paths: os.path.join and os.path.basename follow the platform the app    *)
(* runs on (posixpath or ntpath).                                          *)
(***************************************************************************)
Platforms == {"posix", "nt"}

PathSeps(plat) == IF plat = "nt" THEN {"\\", "/"} ELSE {"/"}

OsSep(plat) == IF plat = "nt" THEN "\\" ELSE "/"

OUTPUT_FOLDER ==
    <<"B","O","L","_","c","r","e","a","t","e","d">>

PathJoin(plat, a, b) == a \o <<OsSep(plat)>> \o b

\* position of the last separator of the path, 0 when there is none
LastSep(plat, path) ==
    LET at == {p \in 1..Len(path) : path[p] \in PathSeps(plat)}
    IN  IF at = {} THEN 0 ELSE CHOOSE p \in at : \A q \in at : q <= p

BaseName(plat, path) == SubSeq(path, LastSep(plat, path) + 1, Len(path))

DirName(plat, path) ==
    IF LastSep(plat, path) = 0 THEN <<>>
    ELSE SubSeq(path, 1, LastSep(plat, path) - 1)

(***************************************************************************)
(* load_state_carrier: the carrier guide filtered to origin TN, with the   *)
(* two carrier names mapped from the two carrier codes.                    *)
(***************************************************************************)
TN == <<"T","N">>
AACT == <<"A","A","C","T">>
EXLA == <<"E","X","L","A">>
CTII == <<"C","T","I","I">>
ABFS == <<"A","B","F","S">>
RNLO == <<"R","N","L","O">>
AAA_Cooper ==
    <<"A","A","A"," ","C","o","o","p","e","r"," ","T","r","a","n","s","p","o","r","t","a","t","i","o","n">>
Estes ==
    <<"E","s","t","e","s"," ","E","x","p","r","e","s","s"," ","L","i","n","e","s">>
Central ==
    <<"C","e","n","t","r","a","l"," ","T","r","a","n","s","p","o","r","t"," ","I","n","c",".">>
ABF == <<"A","B","F">>
RL == <<"R","&","L"," ","C","a","r","r","i","e","r","s">>

\* Series.map(mapping): a code outside the dictionary maps to NaN
mapping(code) ==
    CASE code = PyS(AACT) -> PyS(AAA_Cooper)
      [] code = PyS(EXLA) -> PyS(Estes)
      [] code = PyS(CTII) -> PyS(Central)
      [] code = PyS(ABFS) -> PyS(ABF)
      [] code = PyS(RNLO) -> PyS(RL)
      [] OTHER -> NaN

TN_carrier_row(r) ==
    [SupplierIBtoDC_StoreCarrier |-> r.SupplierIBtoDC_StoreCarrier,
     ResidentialDeliveryCarrier |-> r.ResidentialDeliveryCarrier,
     DestinationState |-> r.DestinationState,
     ShippingCodeStores |-> mapping(r.SupplierIBtoDC_StoreCarrier),
     ShippingCodeHomeDelivery |-> mapping(r.ResidentialDeliveryCarrier)]

load_state_carrier(guide) ==
    LET TN_carrier_df == SelectSeq(guide, LAMBDA r : r.OriginState = PyS(TN))
    IN  [k \in 1..Len(TN_carrier_df) |-> TN_carrier_row(TN_carrier_df[k])]

(***************************************************************************)
(* The CommerceHub CSV: the derived columns HD_Store and ShipToAddress.    *)
(***************************************************************************)
StoreMarker == <<"S","t","o","r","e"," ","#">>
THD == <<"T","H","D">>

\* \d{3,} at position q: the longest run of digits from q, if it has 3 or more
RECURSIVE DigitRun(_, _)
DigitRun(text, q) ==
    IF q <= Len(text) /\ IsDigit(text[q])
    THEN <<text[q]>> \o DigitRun(text, q + 1)
    ELSE <<>>

\* re.search(r'Store #(\d{3,})', text) from position p on: group 1 of the
\* leftmost match, NaN when there is none
RECURSIVE SearchStore(_, _)
SearchStore(text, p) ==
    IF p + Len(StoreMarker) - 1 > Len(text) THEN NaN
    ELSE IF /\ SubSeq(text, p, p + Len(StoreMarker) - 1) = StoreMarker
            /\ Len(DigitRun(text, p + Len(StoreMarker))) >= 3
         THEN PyS(DigitRun(text, p + Len(StoreMarker)))
         ELSE SearchStore(text, p + 1)

\* a search that tries only the first "Store #" of the text
RECURSIVE SearchStore_first(_, _)
SearchStore_first(text, p) ==
    IF p + Len(StoreMarker) - 1 > Len(text) THEN NaN
    ELSE IF SubSeq(text, p, p + Len(StoreMarker) - 1) = StoreMarker
         THEN (IF Len(DigitRun(text, p + Len(StoreMarker))) >= 3
               THEN PyS(DigitRun(text, p + Len(StoreMarker)))
               ELSE NaN)
         ELSE SearchStore_first(text, p + 1)

\* a variant of ExtractStore: text.find("Store #"), then the digits there
ExtractStore_first(v) == IF v.t = "str" THEN SearchStore_first(v.s, 1) ELSE NaN

\* Series.str.extract(r'Store #(\d{3,})') of one cell
ExtractStore(v) == IF v.t = "str" THEN SearchStore(v.s, 1) ELSE NaN

\* Series.str.contains('THD', na=False) of one cell
ContainsTHD(v) == v.t = "str" /\ Contains(v.s, THD)

csv_row(r) ==
    [PONumber |-> r.PONumber,
     ShipToName |-> r.ShipToName,
     ShipToAddress1 |-> r.ShipToAddress1,
     ShipToAddress2 |-> r.ShipToAddress2,
     ShipToCity |-> r.ShipToCity,
     ShipToState |-> r.ShipToState,
     ShipToPostalCode |-> r.ShipToPostalCode,
     ShipToDayPhone |-> r.ShipToDayPhone,
     HD_Store |-> ExtractStore(r.ShipToAddress1),
     ShipToAddress |-> IF ContainsTHD(r.ShipToAddress1)
                       THEN r.ShipToAddress2
                       ELSE r.ShipToAddress1]

load_csv(csv) == [k \in 1..Len(csv) |-> csv_row(csv[k])]

(***************************************************************************)
(* The SAP LTL spreadsheet: 'Purchase order no.' cast with astype(int).    *)
(***************************************************************************)
RECURSIVE StrInt(_)
StrInt(s) ==
    IF s = <<>> THEN 0
    ELSE 10 * StrInt(SubSeq(s, 1, Len(s) - 1))
         + ((CHOOSE d \in 1..10 : DIGITS[d] = s[Len(s)]) - 1)

\* int(x) of a cell that holds an int or a text of digits
astype_int(v) == IF v.t = "int" THEN v ELSE PyI(StrInt(v.s))

load_ltl(ltl) ==
    [k \in 1..Len(ltl) |->
        [ltl[k] EXCEPT !.Purchase_order_no = astype_int(ltl[k].Purchase_order_no)]]

(***************************************************************************)
(* The joins.  pd.merge keeps the order of the left rows, lists the        *)
(* matches of one left row in the order of the right table, matches a NaN  *)
(* key with a NaN key, and numbers the rows of its result 0, 1, 2, ...     *)
(***************************************************************************)
NoCarrier ==
    [SupplierIBtoDC_StoreCarrier |-> NaN,
     ResidentialDeliveryCarrier |-> NaN,
     ShippingCodeStores |-> NaN,
     ShippingCodeHomeDelivery |-> NaN]

CarrierColumns ==
    {"SupplierIBtoDC_StoreCarrier", "ResidentialDeliveryCarrier",
     "ShippingCodeStores", "ShippingCodeHomeDelivery"}

\* the columns of a carrier row but DestinationState (dropped at line 104)
CarrierPart(c) == [f \in CarrierColumns |-> c[f]]

\* a variant of LeftMatches: how='inner', an order without a carrier row is dropped
LeftMatches_inner(o, carriers) ==
    LET m == SelectSeq(carriers, LAMBDA c : c.DestinationState = o.ShipToState)
    IN  [k \in 1..Len(m) |-> o @@ CarrierPart(m[k])]

\* the rows one order row gives in the how='left' merge
LeftMatches(o, carriers) ==
    LET m == SelectSeq(carriers, LAMBDA c : c.DestinationState = o.ShipToState)
    IN  IF m = <<>> THEN <<o @@ NoCarrier>>
        ELSE [k \in 1..Len(m) |-> o @@ CarrierPart(m[k])]

RECURSIVE merge_left(_, _)
merge_left(orders, carriers) ==
    IF orders = <<>> THEN <<>>
    ELSE LeftMatches(Head(orders), carriers) \o merge_left(Tail(orders), carriers)

\* lines 105-114: SCAC and Carrier_name by np.where on HD_Store.notna()
SCAC_of(r) ==
    IF notna(r.HD_Store) THEN r.SupplierIBtoDC_StoreCarrier
    ELSE r.ResidentialDeliveryCarrier

\* a variant of Carrier_name_of: the two carrier names exchanged
Carrier_name_swapped(r) ==
    IF notna(r.HD_Store) THEN r.ShippingCodeHomeDelivery
    ELSE r.ShippingCodeStores

Carrier_name_of(r) ==
    IF notna(r.HD_Store) THEN r.ShippingCodeStores
    ELSE r.ShippingCodeHomeDelivery

resolve_carrier(r) ==
    r @@ [SCAC |-> SCAC_of(r), Carrier_name |-> Carrier_name_of(r)]

make_df_chub(orders, carriers) ==
    LET m == merge_left(orders, carriers)
    IN  [k \in 1..Len(m) |-> resolve_carrier(m[k])]

\* a variant of InnerMatches: how='left', a shipment without an order is kept
InnerMatches_left(s, chub) ==
    LET m == SelectSeq(chub, LAMBDA o : o.PONumber = s.Purchase_order_no)
    IN  IF m = <<>> THEN <<s>> ELSE [k \in 1..Len(m) |-> s @@ m[k]]

\* the rows one shipment row gives in the how='inner' merge
InnerMatches(s, chub) ==
    LET m == SelectSeq(chub, LAMBDA o : o.PONumber = s.Purchase_order_no)
    IN  [k \in 1..Len(m) |-> s @@ m[k]]

RECURSIVE merge_inner(_, _)
merge_inner(ships, chub) ==
    IF ships = <<>> THEN <<>>
    ELSE InnerMatches(Head(ships), chub) \o merge_inner(Tail(ships), chub)

\* the index labels of a merge result: RangeIndex 0 .. n-1
RangeIndex(n) == [k \in 1..n |-> k - 1]

(***************************************************************************)
(* The replacements of one row (lines 134-151) and fill_template.          *)
(***************************************************************************)
T_CARRIER_NAME ==
    <<"{","{","C","A","R","R","I","E","R"," ","N","A","M","E","}","}">>
T_CUSTOMER_NAME ==
    <<"{","{","C","U","S","T","O","M","E","R"," ","N","A","M","E","}","}">>
T_HD_STORE ==
    <<"{","{","H","D","_","S","T","O","R","E","}","}">>
T_ADRESS ==
    <<"{","{","A","D","R","E","S","S","}","}">>
T_CITY ==
    <<"{","{","C","I","T","Y","}","}">>
T_STATE ==
    <<"{","{","S","T","A","T","E","}","}">>
T_ZIP_CODE ==
    <<"{","{","Z","I","P"," ","C","O","D","E","}","}">>
T_PHONE_NUMBER ==
    <<"{","{","P","H","O","N","E"," ","N","U","M","B","E","R","}","}">>
T_SCAC ==
    <<"{","{","S","C","A","C","}","}">>
T_PO_NUMBER ==
    <<"{","{","P","O","_","N","U","M","B","E","R","}","}">>
T_NUM_PACKAGES ==
    <<"{","{","N","U","M","_","P","A","C","K","A","G","E","S","}","}">>
T_WEIGHT ==
    <<"{","{","W","E","I","G","H","T","}","}">>
T_CUSTOMER_ORDER ==
    <<"{","{","C","U","S","T","O","M","E","R"," ","O","R","D","E","R","}","}">>
T_DELIVERY_NUMBER ==
    <<"{","{","D","E","L","I","V","E","R","Y"," ","N","U","M","B","E","R","}","}">>
T_QTY_1 ==
    <<"{","{","Q","T","Y","_","1","}","}">>
T_QTY_PACK ==
    <<"{","{","Q","T","Y","_","P","A","C","K","}","}">>

\* row.get(col, ""): the cell, NaN included; "" only when the row has no such column
row_get(row, col) == IF col \in DOMAIN row THEN row[col] ELSE PyS(<<>>)

\* "{{HD_STORE}}": ShipToAddress1 if pd.notna(row.get("HD_Store")) else ""
HD_STORE_value(row) ==
    IF notna(row_get(row, "HD_Store")) THEN row_get(row, "ShipToAddress1")
    ELSE PyS(<<>>)

\* the dict of lines 134-151, in insertion order
make_replacements(row) ==
    << [key |-> T_CARRIER_NAME,    val |-> row_get(row, "Carrier_name")],
       [key |-> T_CUSTOMER_NAME,   val |-> row_get(row, "ShipToName")],
       [key |-> T_HD_STORE,        val |-> HD_STORE_value(row)],
       [key |-> T_ADRESS,          val |-> row_get(row, "ShipToAddress")],
       [key |-> T_CITY,            val |-> row_get(row, "ShipToCity")],
       [key |-> T_STATE,           val |-> row_get(row, "ShipToState")],
       [key |-> T_ZIP_CODE,        val |-> row_get(row, "ShipToPostalCode")],
       [key |-> T_PHONE_NUMBER,    val |-> row_get(row, "ShipToDayPhone")],
       [key |-> T_SCAC,            val |-> row_get(row, "SCAC")],
       [key |-> T_PO_NUMBER,       val |-> row_get(row, "PONumber")],
       [key |-> T_NUM_PACKAGES,    val |-> PyS(PyStr(row_get(row, "Order_Quantity")))],
       [key |-> T_WEIGHT,          val |-> PyS(PyStr(row_get(row, "Gross_weight")))],
       [key |-> T_CUSTOMER_ORDER,  val |-> row_get(row, "CustomerOrderNumber")],
       [key |-> T_DELIVERY_NUMBER, val |-> row_get(row, "DN")],
       [key |-> T_QTY_1,           val |-> PyS(PyStr(row_get(row, "Pallet_qty")))],
       [key |-> T_QTY_PACK,        val |-> PyS(PyStr(row_get(row, "Order_Quantity")))] >>

\* a variant of fill_one: text.replace(key, str(val), 1), the first occurrence only
fill_one_first(text, item) ==
    IF Contains(text, item.key)
    THEN LET p == CHOOSE q \in 1..Len(text) :
                     /\ StartsWith(SubSeq(text, q, Len(text)), item.key)
                     /\ \A i \in 1..(q - 1) : ~StartsWith(SubSeq(text, i, Len(text)), item.key)
         IN  SubSeq(text, 1, p - 1) \o PyStr(item.val)
                 \o SubSeq(text, p + Len(item.key), Len(text))
    ELSE text

\* one pass of "if key in text: text = text.replace(key, str(val))"
fill_one(text, item) ==
    IF Contains(text, item.key) THEN Replace(text, item.key, PyStr(item.val))
    ELSE text

\* the loop over replacements.items() on one paragraph or cell, from item k on
RECURSIVE fill_text(_, _, _)
fill_text(text, repl, k) ==
    IF k > Len(repl) THEN text
    ELSE fill_text(fill_one(text, repl[k]), repl, k + 1)

\* the document fill_template saves: every paragraph, then every table cell
fill_template(tpl, repl) ==
    [paragraphs |-> [k \in 1..Len(tpl.paragraphs) |-> fill_text(tpl.paragraphs[k], repl, 1)],
     cells |-> [k \in 1..Len(tpl.cells) |-> fill_text(tpl.cells[k], repl, 1)]]

\* line 132: str(dn).strip().replace("/","_").replace("//","_")
clean_dn(v) ==
    Replace(Replace(Strip(PyStr(v)), <<"/">>, <<"_">>), <<"/", "/">>, <<"_">>)

BOL_prefix == <<"B","O","L","_">>
docx_suffix == <<".","d","o","c","x">>

\* line 153: os.path.join(OUTPUT_FOLDER, f"BOL_{dn}.docx")
output_file_of(plat, row) ==
    PathJoin(plat, OUTPUT_FOLDER, BOL_prefix \o clean_dn(row_get(row, "DN")) \o docx_suffix)

(***************************************************************************)
(* The state of one run of the script.                                     *)
(***************************************************************************)
VARIABLES
    platform,          \* os.name of the host
    carrier_guide,     \* rows of HD_carrier_guide.xlsx
    TN_carrier_clean,  \* load_state_carrier() (line 73)
    uploaded_ltl,      \* rows of the uploaded SAP LTL spreadsheet
    uploaded_csv,      \* rows of the uploaded CommerceHub CSV (after the 3 skipped lines)
    template,          \* paragraphs and table cells of BOL_template.docx
    pc,                \* "ready", "loop", "done" or "error"
    df_BOL,            \* the joined table: index label and row
    replacements,      \* the dict of the row last processed
    created_files,     \* paths appended at line 155
    progress,          \* values given to the progress bar, as <<numerator, denominator>>
    files,             \* documents in the output folder, by path
    zip_buffer,        \* entries of the archive: arcname and document
    messages,          \* st.success / st.error calls
    download           \* whether the download button is shown

vars ==
    <<platform, carrier_guide, TN_carrier_clean, uploaded_ltl, uploaded_csv,
      template, pc, df_BOL, replacements, created_files, progress, files,
      zip_buffer, messages, download>>

inputs ==
    <<platform, carrier_guide, TN_carrier_clean, uploaded_ltl, uploaded_csv, template>>

total_rows == Len(df_BOL)

(***************************************************************************)
(* Inputs of the model.                                                    *)
(***************************************************************************)
GA == <<"G","A">>
S_1001 == <<"1","0","0","1">>
DN_77 == <<"D","N","7","7">>
DN_seps == <<"7","/","7","\\","7">>
Addr_store == <<"S","t","o","r","e"," ","#","0","4","5">>
Addr_home == <<"9"," ","E","l","m">>

LtlRow(po, dn) ==
    [Purchase_order_no |-> po,
     Order_Quantity |-> PyI(4),
     Gross_weight |-> PyI(250),
     Pallet_qty |-> PyI(1),
     DN |-> dn,
     CustomerOrderNumber |-> PyS(<<"C","7">>)]

CsvRow(po, addr1, state, name, city) ==
    [PONumber |-> po,
     ShipToName |-> name,
     ShipToAddress1 |-> addr1,
     ShipToAddress2 |-> PyS(<<"D","o","c","k"," ","5">>),
     ShipToCity |-> city,
     ShipToState |-> PyS(state),
     ShipToPostalCode |-> PyI(37011),
     ShipToDayPhone |-> NaN]

CarrierRow(origin, dest, store, home) ==
    [OriginState |-> PyS(origin),
     DestinationState |-> PyS(dest),
     SupplierIBtoDC_StoreCarrier |-> PyS(store),
     ResidentialDeliveryCarrier |-> PyS(home)]

\* a carrier code the mapping of load_state_carrier does not hold
UPGF == <<"U","P","G","F">>

Name_Al == PyS(<<"A","l">>)
City_Rome == PyS(<<"R","o","m","e">>)

\* a purchase order number typed as text or as a number; a delivery number
\* with and without path separators
LtlRowSet ==
    {LtlRow(po, dn) : po \in {PyS(S_1001), PyI(1002)}, dn \in {PyS(DN_77), PyS(DN_seps)}}

\* a store and a home address, a state the guide knows and one it does not
CsvRowSet ==
    {CsvRow(PyI(1001), addr, st, Name_Al, City_Rome) :
        addr \in {PyS(Addr_store), PyS(Addr_home)}, st \in {TN, GA}}

\* two rows for origin TN (one with a code outside the mapping) and one row
\* for another origin
CarrierRowSet ==
    {CarrierRow(TN, TN, AACT, EXLA), CarrierRow(TN, TN, RNLO, UPGF),
     CarrierRow(GA, TN, CTII, ABFS)}

GuideRow == CarrierRow(TN, TN, AACT, EXLA)

\* a template with one paragraph and five table cells
BOL_template ==
    [paragraphs |-> << <<"B","O","L"," ">> \o T_DELIVERY_NUMBER >>,
     cells |-> <<T_CARRIER_NAME, T_SCAC, T_HD_STORE, T_PO_NUMBER, T_PHONE_NUMBER>>]

Seqs(S, n) == [1..n -> S]

\* the state before the button is pressed, both files uploaded
Start(plat, guide, ltl, csv, tpl) ==
    /\ platform = plat
    /\ carrier_guide = guide
    /\ TN_carrier_clean = load_state_carrier(guide)
    /\ uploaded_ltl = ltl
    /\ uploaded_csv = csv
    /\ template = tpl
    /\ pc = "ready"
    /\ df_BOL = <<>>
    /\ replacements = <<>>
    /\ created_files = <<>>
    /\ progress = <<>>
    /\ files = <<>>
    /\ zip_buffer = <<>>
    /\ messages = <<>>
    /\ download = FALSE

Init ==
    \E plat \in Platforms, a \in 0..MaxRows :
      \E b \in 0..(MaxRows - a) :
        \E c \in 0..(MaxRows - a - b) :
          \E ltl \in Seqs(LtlRowSet, a), csv \in Seqs(CsvRowSet, b),
             guide \in Seqs(CarrierRowSet, c) :
            Start(plat, guide, ltl, csv, BOL_template)

(***************************************************************************)
(* The run: lines 77-176.                                                  *)
(***************************************************************************)
\* lines 79-128: load, derive, merge, and set up the loop
make_df_BOL(ltl, csv, carriers) ==
    LET bol == merge_inner(load_ltl(ltl), make_df_chub(load_csv(csv), carriers))
    IN  [k \in 1..Len(bol) |-> [index |-> RangeIndex(Len(bol))[k], row |-> bol[k]]]

Click ==
    /\ pc = "ready"
    /\ df_BOL' = make_df_BOL(uploaded_ltl, uploaded_csv, TN_carrier_clean)
    /\ created_files' = <<>>
    /\ progress' = << <<0, 1>> >>
    /\ pc' = "loop"
    /\ UNCHANGED <<inputs, replacements, files, zip_buffer, messages, download>>

\* a variant of progress_value: i / total_rows
progress_value_late(i, n) == <<i, n>>

\* line 158: progress_bar.progress((i + 1) / total_rows)
progress_value(i, n) == <<i + 1, n>>

\* doc.save(path) needs the folder of the path to exist; only OUTPUT_FOLDER does
can_save(plat, path) == DirName(plat, path) = OUTPUT_FOLDER

\* a variant of save: a file that exists is not written again
save_keep_first(disk, path, doc) ==
    [q \in (DOMAIN disk) \cup {path} |-> IF q \in DOMAIN disk THEN disk[q] ELSE doc]

save(disk, path, doc) ==
    [q \in (DOMAIN disk) \cup {path} |-> IF q = path THEN doc ELSE disk[q]]

\* lines 130-158: one iteration of the loop
FillRow ==
    /\ pc = "loop"
    /\ Len(created_files) < total_rows
    /\ LET e == df_BOL[Len(created_files) + 1]
           output_file == output_file_of(platform, e.row)
       IN  /\ can_save(platform, output_file)
           /\ replacements' = make_replacements(e.row)
           /\ files' = save(files, output_file, fill_template(template, replacements'))
           /\ created_files' = Append(created_files, output_file)
           /\ progress' = Append(progress, progress_value(e.index, total_rows))
    /\ UNCHANGED <<inputs, pc, df_BOL, zip_buffer, messages, download>>

\* a variant of FillRowFail: the except clause inside the loop, which reports
\* the error and goes on with the rows that follow
FillRowFail_isolated ==
    /\ pc = "loop"
    /\ Len(created_files) < total_rows
    /\ replacements' = make_replacements(df_BOL[Len(created_files) + 1].row)
    /\ messages' = Append(messages, [kind |-> "error", count |-> 0])
    /\ df_BOL' = [k \in 1..(total_rows - 1) |->
                    IF k <= Len(created_files) THEN df_BOL[k] ELSE df_BOL[k + 1]]
    /\ UNCHANGED <<inputs, pc, created_files, progress, files, zip_buffer, download>>

\* lines 154 and 175-176: fill_template raises (the folder of the path is
\* missing, the disk is full, the file is locked, ...) and the except
\* clause reports the error
FillRowFail ==
    /\ pc = "loop"
    /\ Len(created_files) < total_rows
    /\ replacements' = make_replacements(df_BOL[Len(created_files) + 1].row)
    /\ messages' = Append(messages, [kind |-> "error", count |-> 0])
    /\ pc' = "error"
    /\ UNCHANGED <<inputs, df_BOL, created_files, progress, files, zip_buffer, download>>

\* lines 160-165: zipf.write(file, os.path.basename(file)) for each path
make_zip(plat, paths, disk) ==
    [k \in 1..Len(paths) |-> [arcname |-> BaseName(plat, paths[k]), doc |-> disk[paths[k]]]]

\* lines 160-173: the archive, the success message and the download button
CreateZip ==
    /\ pc = "loop"
    /\ Len(created_files) = total_rows
    /\ zip_buffer' = make_zip(platform, created_files, files)
    /\ messages' = Append(messages, [kind |-> "success", count |-> Len(created_files)])
    /\ download' = TRUE
    /\ pc' = "done"
    /\ UNCHANGED <<inputs, df_BOL, replacements, created_files, progress, files>>

Next == Click \/ FillRow \/ FillRowFail \/ CreateZip

Spec == Init /\ [][Next]_vars

(***************************************************************************)
(* A run over one order whose primary address line is built from           *)
(* fragments: the input space of the HD_Store extraction.                  *)
(***************************************************************************)
Fragments ==
    { StoreMarker,
      <<"S","t","o","r","e"," ","#","1","2"," ">>,
      <<"3","4","5">>,
      <<"6">>,
      <<"T","H","D"," ">> }

RECURSIVE Concat(_)
Concat(parts) == IF parts = <<>> THEN <<>> ELSE Head(parts) \o Concat(Tail(parts))

AddressCells ==
    {NaN} \cup {PyS(Concat(parts)) : parts \in UNION {Seqs(Fragments, n) : n \in 0..MaxFrags}}

InitExtract ==
    \E plat \in Platforms, addr \in AddressCells :
        Start(plat, <<GuideRow>>,
              <<LtlRow(PyI(1001), PyS(DN_77))>>,
              <<CsvRow(PyI(1001), addr, TN, Name_Al, City_Rome)>>,
              BOL_template)

SpecExtract == InitExtract /\ [][Next]_vars

(***************************************************************************)
(* A run over one order with a template built from pieces and with cell    *)
(* values that may hold braces: the input space of fill_template.          *)
(***************************************************************************)
Pieces ==
    { T_CUSTOMER_NAME,
      T_CITY,
      <<"x">>,
      <<"{","{","C","U","S","T","O","M","E","R"," ">>,
      <<"}","}">> }

TemplateTexts == {Concat(parts) : parts \in UNION {Seqs(Pieces, n) : n \in 0..MaxPieces}}

NameCells == {Name_Al, PyS(T_CITY)}

CityCells == {PyS(<<"N","A","M","E">>), PyS(T_CUSTOMER_NAME)}

InitFill ==
    \E plat \in Platforms, text \in TemplateTexts, in_cell \in BOOLEAN,
       name \in NameCells, city \in CityCells :
        Start(plat, <<GuideRow>>,
              <<LtlRow(PyI(1001), PyS(DN_77))>>,
              <<CsvRow(PyI(1001), PyS(Addr_home), TN, name, city)>>,
              IF in_cell
              THEN [paragraphs |-> <<T_CUSTOMER_NAME>>, cells |-> <<text, T_CITY \o T_CITY>>]
              ELSE [paragraphs |-> <<text>>, cells |-> <<T_CITY \o T_CITY, T_CUSTOMER_NAME>>])

SpecFill == InitFill /\ [][Next]_vars

(***************************************************************************)
(* Notions the properties below are stated with.                           *)
(***************************************************************************)
Rows == 1..total_rows

Started == pc # "ready"

\* the (shipment, order) pairs of the inner join on
\* 'Purchase order no.' = 'PONumber'
JoinPairs ==
    {x \in (1..Len(uploaded_ltl)) \X (1..Len(uploaded_csv)) :
        astype_int(uploaded_ltl[x[1]].Purchase_order_no) = uploaded_csv[x[2]].PONumber}

\* the rows of the carrier guide for origin TN and a destination state
GuideRows(state) ==
    {k \in 1..Len(carrier_guide) :
        /\ carrier_guide[k].OriginState = PyS(TN)
        /\ carrier_guide[k].DestinationState = state}

RowsOfOrder(j) ==
    IF GuideRows(uploaded_csv[j].ShipToState) = {} THEN 1
    ELSE Cardinality(GuideRows(uploaded_csv[j].ShipToState))

RECURSIVE SumRows(_)
SumRows(pairs) ==
    IF pairs = {} THEN 0
    ELSE LET x == CHOOSE y \in pairs : TRUE
         IN  RowsOfOrder(x[2]) + SumRows(pairs \ {x})

ExpectedDocuments == SumRows(JoinPairs)

Success(n) == [kind |-> "success", count |-> n]
Failure == [kind |-> "error", count |-> 0]

HasError == \E k \in 1..Len(messages) : messages[k].kind = "error"

CreatedSet == {created_files[k] : k \in 1..Len(created_files)}

\* the document of joined row k
DocOfRow(k) == fill_template(template, make_replacements(df_BOL[k].row))

CleanDN(k) == clean_dn(row_get(df_BOL[k].row, "DN"))

\* the last joined row with the sanitized delivery number of row k
LastSame(k) ==
    CHOOSE j \in Rows : /\ CleanDN(j) = CleanDN(k)
                        /\ \A i \in Rows : CleanDN(i) = CleanDN(k) => i <= j

\* "Store #" at position p, followed by three digits
MarkerAt(text, p) ==
    /\ p + Len(StoreMarker) + 2 <= Len(text)
    /\ SubSeq(text, p, p + Len(StoreMarker) - 1) = StoreMarker
    /\ \A q \in (p + Len(StoreMarker))..(p + Len(StoreMarker) + 2) : IsDigit(text[q])

HasStoreMarker(v) == v.t = "str" /\ \E p \in 1..Len(v.s) : MarkerAt(v.s, p)

FirstMarker(text) ==
    CHOOSE p \in 1..Len(text) : MarkerAt(text, p) /\ \A q \in 1..(p - 1) : ~MarkerAt(text, q)

\* the end of the run of digits that starts at position q
RunEnd(text, q) ==
    CHOOSE e \in q..Len(text) :
        /\ \A i \in q..e : IsDigit(text[i])
        /\ (e = Len(text) \/ ~IsDigit(text[e + 1]))

Tokens ==
    {T_CARRIER_NAME, T_CUSTOMER_NAME, T_HD_STORE, T_ADRESS, T_CITY, T_STATE,
     T_ZIP_CODE, T_PHONE_NUMBER, T_SCAC, T_PO_NUMBER, T_NUM_PACKAGES, T_WEIGHT,
     T_CUSTOMER_ORDER, T_DELIVERY_NUMBER, T_QTY_1, T_QTY_PACK}

\* the column each token is read from, in the order of the dict
TokenColumn ==
    <<"Carrier_name", "ShipToName", "ShipToAddress1", "ShipToAddress", "ShipToCity",
      "ShipToState", "ShipToPostalCode", "ShipToDayPhone", "SCAC", "PONumber",
      "Order_Quantity", "Gross_weight", "CustomerOrderNumber", "DN", "Pallet_qty",
      "Order_Quantity">>

HasToken(text) == \E t \in Tokens : Contains(text, t)

DocTexts(doc) ==
    {doc.paragraphs[k] : k \in 1..Len(doc.paragraphs)} \cup {doc.cells[k] : k \in 1..Len(doc.cells)}

Braces == {"{", "}"}

\* position p of the text lies within an occurrence of a token
InsideToken(text, p) ==
    \E t \in Tokens :
        \E q \in 1..p :
            /\ p <= q + Len(t) - 1
            /\ q + Len(t) - 1 <= Len(text)
            /\ SubSeq(text, q, q + Len(t) - 1) = t

\* every brace of the template belongs to a placeholder
PlaceholdersOnly ==
    \A text \in DocTexts(template) :
        \A p \in 1..Len(text) : text[p] \in Braces => InsideToken(text, p)

BraceFree(text) == \A p \in 1..Len(text) : text[p] \notin Braces

BraceFreeValues ==
    \A k \in 1..Len(replacements) : BraceFree(PyStr(replacements[k].val))

\* a row has been filled and replacements is its dict
Filled == pc \in {"loop", "done"} /\ Len(created_files) >= 1

LastRow == df_BOL[Len(created_files)].row

LastDoc == files[created_files[Len(created_files)]]

\* the rows whose output path line 153 has computed
PathRows == 1..(IF pc = "error" THEN Len(created_files) + 1 ELSE Len(created_files))

SepsAt(plat, path) == {p \in 1..Len(path) : path[p] \in PathSeps(plat)}

(***************************************************************************)
(* Properties.                                                             *)
(***************************************************************************)

\* C1 (as stated): a completed run creates as many documents, and reports as
\* many, as the inner join of the shipment and order tables has rows,
\* whatever the carrier guide holds.
C1_CountIsJoinCount ==
    pc = "done" =>
        /\ Len(created_files) = Cardinality(JoinPairs)
        /\ messages = <<Success(Cardinality(JoinPairs))>>

\* C1 (amended): a completed run creates and reports one document per row of
\* the inner join of the shipment table with the carrier-joined order table:
\* every matching (shipment, order) pair gives one document per TN row of the
\* guide for the order's state, and one when the guide has none.  No order row
\* is lost, and the count is that of the shipment-order join when no state of
\* an order appears twice among the TN rows.
C1_CountIsCarrierJoinCount ==
    pc = "done" =>
        /\ Len(created_files) = ExpectedDocuments
        /\ messages = <<Success(ExpectedDocuments)>>
        /\ Len(created_files) >= Cardinality(JoinPairs)
        /\ (\A x \in JoinPairs : Cardinality(GuideRows(uploaded_csv[x[2]].ShipToState)) <= 1)
              => Len(created_files) = Cardinality(JoinPairs)

C1_Witness ==
    /\ pc = "done"
    /\ Cardinality(JoinPairs) >= 1
    /\ \E x \in JoinPairs : Cardinality(GuideRows(uploaded_csv[x[2]].ShipToState)) >= 2
    /\ Len(created_files) > Cardinality(JoinPairs)

\* C2 (as stated): once an error is reported it is the only message, no
\* download is offered, no archive exists and the output folder holds no
\* document of the run.
C2_NothingRetained ==
    HasError =>
        /\ messages = <<Failure>>
        /\ ~download
        /\ zip_buffer = <<>>
        /\ DOMAIN files = {}

\* C2 (amended): once an error is reported the run has stopped for good, the
\* error is the only message, no download is offered and no archive exists;
\* the documents of the rows filled before the failure stay in the output
\* folder.
C2_AbortKeepsFiles ==
    HasError =>
        /\ pc = "error"
        /\ ~ENABLED Next
        /\ messages = <<Failure>>
        /\ ~download
        /\ zip_buffer = <<>>
        /\ Len(created_files) < total_rows
        /\ DOMAIN files = CreatedSet
        /\ \A k \in 1..Len(created_files) : \E j \in 1..Len(created_files) :
               /\ created_files[j] = created_files[k]
               /\ files[created_files[k]] = DocOfRow(j)

C2_Witness ==
    /\ pc = "error"
    /\ Len(created_files) >= 1
    /\ DOMAIN files # {}

\* C3 (as stated): the archive of a completed run holds exactly one entry per
\* sanitized delivery number, under a name without a directory.
C3_OneEntryPerDN ==
    pc = "done" =>
        /\ \A j, k \in 1..Len(zip_buffer) :
               j # k => zip_buffer[j].arcname # zip_buffer[k].arcname
        /\ \A k \in 1..Len(zip_buffer) : SepsAt(platform, zip_buffer[k].arcname) = {}

\* C3 (amended): in a completed run the output folder holds one file per
\* sanitized delivery number, the document of the last row with that number;
\* the archive holds one entry per joined row, named BOL_<number>.docx without
\* a directory, and the entries of rows with the same number have the same
\* name and the document of the last of them.
C3_OverwriteOnDisk ==
    pc = "done" =>
        /\ Cardinality(DOMAIN files) = Cardinality({CleanDN(k) : k \in Rows})
        /\ Len(zip_buffer) = total_rows
        /\ \A k \in Rows :
               /\ files[created_files[k]] = DocOfRow(LastSame(k))
               /\ zip_buffer[k].arcname = BOL_prefix \o CleanDN(k) \o docx_suffix
               /\ SepsAt(platform, zip_buffer[k].arcname) = {}
               /\ zip_buffer[k].doc = DocOfRow(LastSame(k))

C3_Witness ==
    /\ pc = "done"
    /\ \E j, k \in Rows :
           /\ j < k
           /\ CleanDN(j) = CleanDN(k)
           /\ DocOfRow(j) # DocOfRow(k)

\* C4: in the document of a filled row, a table cell that is the token of a
\* null field is empty, and the cell of {{HD_STORE}} is the primary address
\* line when the store identifier is present and empty otherwise.
C4_NullIsEmpty ==
    Filled =>
        \A c \in 1..Len(template.cells) : \A t \in 1..Len(replacements) :
            template.cells[c] = replacements[t].key =>
                IF replacements[t].key = T_HD_STORE
                THEN LastDoc.cells[c] =
                         (IF notna(LastRow.HD_Store) THEN PyStr(LastRow.ShipToAddress1)
                          ELSE <<>>)
                ELSE ~notna(LastRow[TokenColumn[t]]) => LastDoc.cells[c] = <<>>

\* C5: the carrier code and the carrier name of a joined row are those of one
\* TN row of the guide for the row's state, both of the store carrier when
\* the address names a store and both of the residential carrier otherwise;
\* both are null when the guide has no such row.
C5_SameVariant ==
    Started =>
        \A k \in Rows :
            LET r == df_BOL[k].row
                G == GuideRows(r.ShipToState)
            IN  IF G = {} THEN r.SCAC = NaN /\ r.Carrier_name = NaN
                ELSE \E g \in G :
                        LET code == IF HasStoreMarker(r.ShipToAddress1)
                                    THEN carrier_guide[g].SupplierIBtoDC_StoreCarrier
                                    ELSE carrier_guide[g].ResidentialDeliveryCarrier
                        IN  r.SCAC = code /\ r.Carrier_name = mapping(code)

C5_Witness ==
    /\ Started
    /\ \E j, k \in Rows :
           /\ notna(df_BOL[j].row.HD_Store) /\ notna(df_BOL[j].row.SCAC)
           /\ ~notna(df_BOL[k].row.HD_Store) /\ notna(df_BOL[k].row.SCAC)

\* C6: the store identifier of a row is present exactly when the primary
\* address line holds "Store #" followed by three or more digits, and is then
\* the whole run of digits after the first such marker.
C6_StoreIdentifier ==
    Started =>
        \A k \in Rows :
            LET r == df_BOL[k].row
                a == r.ShipToAddress1
            IN  IF HasStoreMarker(a)
                THEN LET q == FirstMarker(a.s) + Len(StoreMarker)
                     IN  r.HD_Store = PyS(SubSeq(a.s, q, RunEnd(a.s, q)))
                ELSE r.HD_Store = NaN

C6_Witness ==
    /\ Started
    /\ \E k \in Rows :
           /\ notna(df_BOL[k].row.HD_Store)
           /\ \E p \in 1..(FirstMarker(df_BOL[k].row.ShipToAddress1.s) - 1) :
                  StartsWith(SubSeq(df_BOL[k].row.ShipToAddress1.s, p,
                                    Len(df_BOL[k].row.ShipToAddress1.s)), StoreMarker)

\* C7 (as stated): the document of a filled row holds no token, for any
\* template whose braces all belong to placeholders and any values.
C7_NoTokenLeft ==
    (Filled /\ PlaceholdersOnly) =>
        \A text \in DocTexts(LastDoc) : ~HasToken(text)

\* C7 (amended): the document of a filled row holds no token when the braces
\* of the template all belong to placeholders and no substituted value holds
\* a brace.
C7_NoTokenLeftBraceFree ==
    (Filled /\ PlaceholdersOnly /\ BraceFreeValues) =>
        \A text \in DocTexts(LastDoc) : ~HasToken(text)

C7_Witness ==
    /\ pc = "done"
    /\ Filled /\ PlaceholdersOnly /\ BraceFreeValues
    /\ \E text \in DocTexts(template) :
           Contains(text, T_CITY \o T_CUSTOMER_NAME)

\* C8: when no shipment matches an order the run raises no error, writes no
\* document, leaves the progress bar at 0, and ends with an empty archive,
\* the download button and the message "Created 0 BOLs!".
C8_EmptyJoin ==
    (Started /\ JoinPairs = {}) =>
        /\ total_rows = 0
        /\ pc # "error" /\ ~HasError
        /\ created_files = <<>>
        /\ DOMAIN files = {}
        /\ progress = << <<0, 1>> >>
        /\ pc = "loop" => ENABLED CreateZip
        /\ pc = "done" => /\ messages = <<Success(0)>>
                          /\ zip_buffer = <<>>
                          /\ download

C8_Witness ==
    /\ pc = "done"
    /\ JoinPairs = {}
    /\ Len(uploaded_ltl) >= 1
    /\ Len(uploaded_csv) >= 1

\* C9: every output path the loop computes has its only path separator right
\* after the output folder: the file lies directly in the output folder.
C9_DirectlyInFolder ==
    Started =>
        \A k \in PathRows :
            SepsAt(platform, output_file_of(platform, df_BOL[k].row))
                = {Len(OUTPUT_FOLDER) + 1}

\* C10: the progress bar is set to 0 before the loop and to k / n after the
\* k-th of the n documents is filled, so it rises strictly, stays within
\* [0, 1] and is 1 exactly when the last document is filled.
C10_LinearProgress ==
    Started =>
        /\ Len(created_files) <= total_rows
        /\ Len(progress) = Len(created_files) + 1
        /\ progress[1] = <<0, 1>>
        /\ \A k \in 1..Len(created_files) :
               /\ progress[k + 1] = <<k, total_rows>>
               \* within [0, 1], above the value before, and 1 at the last row only
               /\ 0 <= progress[k + 1][1] /\ progress[k + 1][1] <= progress[k + 1][2]
               /\ progress[k][1] * progress[k + 1][2] < progress[k + 1][1] * progress[k][2]
               /\ (progress[k + 1][1] = progress[k + 1][2]) <=> (k = total_rows)

C10_Witness ==
    /\ pc = "done"
    /\ total_rows >= 3
    /\ progress[Len(progress)] = <<total_rows, total_rows>>

====
